---------------------------- MODULE Spec2Model ----------------------------
(***************************************************************************)
(* Offline-first synchronization engine of the warehouse-management        *)
(* application: the replicated document (crates/wms-sync/src/crdt.rs), the *)
(* sync engine (crates/wms-sync/src/engine.rs) and the command that drives *)
(* it (src-tauri/src/commands/sync.rs).                                    *)
(***************************************************************************)
EXTENDS Integers, Sequences, FiniteSets, TLC

(***************************************************************************)
(* Bounds of the model.                                                    *)
(***************************************************************************)
\* actor identifiers a document instance can draw (AutoCommit::new/load
\* draw a random one)
NumActors == 3

Actors == 1..NumActors

(***************************************************************************)
(* Result<T>: Ok(v) / Err(message).                                        *)
(***************************************************************************)
Ok(v) == [ok |-> TRUE, val |-> v, err |-> ""]

Err(m, v) == [ok |-> FALSE, val |-> v, err |-> m]

(***************************************************************************)
(* The replicated document.  A document is the set of operations it knows  *)
(* plus the actor identifier its own new operations are stamped with.  An  *)
(* operation identifier is <<counter, actor>>, ordered by counter and then *)
(* by actor.                                                               *)
(***************************************************************************)
ROOT == <<0, 0>>

HEAD == <<0, 0>>

V_f64(n) == [t |-> "f64", n |-> n, s |-> ""]

V_int(n) == [t |-> "int", n |-> n, s |-> ""]

V_str(s) == [t |-> "str", n |-> 0, s |-> s]

V_bool(b) == [t |-> "bool", n |-> IF b THEN 1 ELSE 0, s |-> ""]

V_null == [t |-> "null", n |-> 0, s |-> ""]

V_obj(kind) == [t |-> kind, n |-> 0, s |-> ""]

\* an operation of the change history: a put on a map key (insert = FALSE)
\* or the insertion of a list element at the head (insert = TRUE); pred is
\* what the operation overwrites, deps the heads of the history it was
\* made on
MkOp(id, obj, key, insert, value, pred, deps) ==
  [id |-> id, obj |-> obj, key |-> key, insert |-> insert,
   value |-> value, pred |-> pred, deps |-> deps]

OpIdLess(a, b) == a[1] < b[1] \/ (a[1] = b[1] /\ a[2] < b[2])

MaxCounter(ops) ==
  IF ops = {} THEN 0
  ELSE CHOOSE c \in {o.id[1] : o \in ops} : \A o \in ops : o.id[1] <= c

NextOpId(doc) == <<MaxCounter(doc.ops) + 1, doc.actor>>

\* doc.get_heads(): the operations of the history that no other operation
\* of it was made after
Heads(ops) == {o.id : o \in ops} \ UNION {o.deps : o \in ops}

\* CrdtDocument::new: an empty history under a fresh actor
new(actor) == [actor |-> actor, ops |-> {}]

\* bytes that are no change history
CorruptBytes == [valid |-> FALSE, ops |-> {}]

\* a faulty save: only the changes the instance made itself are written
save_own_changes(doc) ==
  [valid |-> TRUE, ops |-> {o \in doc.ops : o.id[2] = doc.actor}]

\* CrdtDocument::save: the full change history; the instance's actor
\* identifier is not part of it
save(doc) == [valid |-> TRUE, ops |-> doc.ops]

\* CrdtDocument::from_changes: the loaded instance gets its own actor
from_changes(bytes, actor) ==
  IF bytes.valid
  THEN Ok([actor |-> actor, ops |-> bytes.ops])
  ELSE Err("Sync error: Failed to load CRDT", new(actor))

\* a faulty merge: on a key both sides have written, the document keeps
\* its own operations and drops the other side's
merge_keeps_own(doc, other_changes) ==
  IF other_changes.valid
  THEN Ok([doc EXCEPT !.ops = doc.ops \cup
             {o \in other_changes.ops :
                \A p \in doc.ops :
                  p = o \/ o.insert \/ p.insert
                    \/ p.obj # o.obj \/ p.key # o.key}])
  ELSE Err("Sync error: Failed to load other CRDT", doc)

\* a faulty merge: every merge records a change of its own, whether or not
\* the other history held anything new
merge_stamps(doc, other_changes) ==
  IF other_changes.valid
  THEN LET all == doc.ops \cup other_changes.ops
       IN  Ok([doc EXCEPT !.ops = all \cup
                 {MkOp(<<MaxCounter(all) + 1, doc.actor>>, ROOT, "merged",
                       FALSE, V_null, {}, Heads(all))}])
  ELSE Err("Sync error: Failed to load other CRDT", doc)

\* a faulty merge: the document's history is replaced by the other one
merge_takes_other(doc, other_changes) ==
  IF other_changes.valid
  THEN Ok([doc EXCEPT !.ops = other_changes.ops])
  ELSE Err("Sync error: Failed to load other CRDT", doc)

\* CrdtDocument::merge: load the other history and fold it in
merge(doc, other_changes) ==
  IF other_changes.valid
  THEN Ok([doc EXCEPT !.ops = doc.ops \cup other_changes.ops])
  ELSE Err("Sync error: Failed to load other CRDT", doc)

\* the operations on (obj, key) that no known operation has overwritten
Visible(doc, obj, key) ==
  {o \in doc.ops :
     /\ o.obj = obj /\ o.key = key /\ ~o.insert
     /\ \A p \in doc.ops : o.id \notin p.pred}

\* a faulty get: of the conflicting values the document's own wins
get_prefers_own(doc, obj, key) ==
  LET vis == Visible(doc, obj, key)
      own == {o \in vis : o.id[2] = doc.actor}
      use == IF own # {} THEN own ELSE vis
  IN  {o \in use : \A p \in use : p = o \/ OpIdLess(p.id, o.id)}

\* doc.get(obj, key): of the conflicting values the one with the greatest
\* operation identifier wins; {} stands for None
get(doc, obj, key) ==
  LET vis == Visible(doc, obj, key)
  IN  {o \in vis : \A p \in vis : p = o \/ OpIdLess(p.id, o.id)}

\* doc.put / doc.put_object on a map key: overwrites what is visible there
put(doc, obj, key, value) ==
  [doc EXCEPT !.ops = @ \cup
     {MkOp(NextOpId(doc), obj, key, FALSE, value,
           {o.id : o \in Visible(doc, obj, key)}, Heads(doc.ops))}]

IsList(doc, id) ==
  \E o \in doc.ops : o.id = id /\ o.value.t = "list"

\* the elements of a list: every element was inserted at index 0, so the
\* list runs from the greatest identifier to the least
ListElems(doc, list_id) ==
  {o \in doc.ops : o.obj = list_id /\ o.insert}

RECURSIVE ListSeq(_)
ListSeq(elems) ==
  IF elems = {} THEN <<>>
  ELSE LET first == CHOOSE o \in elems :
                      \A p \in elems : p = o \/ OpIdLess(p.id, o.id)
       IN  <<first>> \o ListSeq(elems \ {first})

\* doc.length(obj): 0 for what is not a list
length(doc, id) ==
  IF IsList(doc, id) THEN Cardinality(ListElems(doc, id)) ELSE 0

\* doc.insert_object(list, 0, Map): fails on what is not a list
insert_object(doc, list_id) ==
  IF IsList(doc, list_id)
  THEN Ok([doc EXCEPT !.ops = @ \cup
             {MkOp(NextOpId(doc), list_id, "", TRUE, V_obj("map"), {},
                   Heads(doc.ops))}])
  ELSE Err("Sync error: invalid object id", doc)

\* CrdtDocument::set
set(doc, key, value) == put(doc, ROOT, key, value)

\* CrdtDocument::create_list
create_list(doc, key) == put(doc, ROOT, key, V_obj("list"))

\* CrdtOperation::new
CrdtOperation(id, op_type, delta, user_id) ==
  [id |-> id, op_type |-> op_type, delta |-> delta, user_id |-> user_id,
   timestamp |-> "now"]

\* CrdtDocument::push_operation: get or create the list under list_key,
\* insert a map at its head and put the operation's fields into it
push_operation(doc, list_key, operation) ==
  LET found   == get(doc, ROOT, list_key)
      d1      == IF found = {} THEN create_list(doc, list_key) ELSE doc
      list_id == IF found = {} THEN NextOpId(doc)
                 ELSE (CHOOSE o \in found : TRUE).id
      ins     == insert_object(d1, list_id)
      op_id   == NextOpId(d1)
      d2      == put(ins.val, op_id, "type", V_str(operation.op_type))
      d3      == put(d2, op_id, "delta", V_f64(operation.delta))
      d4      == put(d3, op_id, "user", V_str(operation.user_id))
      d5      == put(d4, op_id, "id", V_str(operation.id))
      d6      == put(d5, op_id, "timestamp", V_str(operation.timestamp))
  IN  IF ins.ok THEN Ok(d6) ELSE ins

\* val.to_f64()
to_f64(value) == IF value.t \in {"f64", "int"} THEN {value.n} ELSE {}

\* a faulty sum: only the positive deltas are added up
RECURSIVE SumDeltas_receipts_only(_, _)
SumDeltas_receipts_only(doc, elems) ==
  IF elems = <<>> THEN 0
  ELSE LET val == get(doc, Head(elems).id, "delta")
           d   == IF val = {} THEN {}
                  ELSE to_f64((CHOOSE o \in val : TRUE).value)
       IN  (IF d = {} \/ (CHOOSE n \in d : TRUE) < 0 THEN 0
            ELSE CHOOSE n \in d : TRUE)
             + SumDeltas_receipts_only(doc, Tail(elems))

RECURSIVE SumDeltas(_, _)
SumDeltas(doc, elems) ==
  IF elems = <<>> THEN 0
  ELSE LET val == get(doc, Head(elems).id, "delta")
           d   == IF val = {} THEN {}
                  ELSE to_f64((CHOOSE o \in val : TRUE).value)
       IN  (IF d = {} THEN 0 ELSE CHOOSE n \in d : TRUE)
             + SumDeltas(doc, Tail(elems))

\* CrdtDocument::calculate_sum: the deltas of the list that get() finds
\* under list_key; 0 when the key is absent
calculate_sum(doc, list_key) ==
  LET found == get(doc, ROOT, list_key)
  IN  IF found = {} THEN 0
      ELSE LET list_id == (CHOOSE o \in found : TRUE).id
           IN  IF IsList(doc, list_id)
               THEN SumDeltas(doc, ListSeq(ListElems(doc, list_id)))
               ELSE 0

\* val.to_str(), val.to_i64(): {} stands for None
to_str(value) == IF value.t = "str" THEN {value.s} ELSE {}

to_i64(value) == IF value.t \in {"int", "f64"} THEN {value.n} ELSE {}

\* the value doc.get(ROOT, key) returns, if any
RootValue(doc, key) == {o.value : o \in get(doc, ROOT, key)}

\* CrdtDocument::get_string / get_int / get_float
get_string(doc, key) == UNION {to_str(v) : v \in RootValue(doc, key)}

get_int(doc, key) == UNION {to_i64(v) : v \in RootValue(doc, key)}

get_float(doc, key) == UNION {to_f64(v) : v \in RootValue(doc, key)}

\* CrdtDocument::get_heads_json
get_heads_json(doc) == Heads(doc.ops)


(***************************************************************************)
(* The sync engine and the sync_now command.                               *)
(***************************************************************************)
\* concurrent invocations of the sync_now command
NumTasks == 2

\* rows the outbox may hold
MaxOutbox == 1

\* changes one response may carry
MaxChanges == 2

\* rows the inbox may hold
MaxInbox == 2

\* consecutive failed passes counted in sync_errors
MaxSyncErrors == 1

\* successful passes stamped in last_sync_at
MaxSyncTime == 1

\* LIMIT of the outbox query
BatchLimit == 100

\* geofence ids the deliveries service checks
NumGeofences == 2

\* positions along the route: 0..MaxCoord
MaxCoord == 2

\* the largest radius of a circular geofence
MaxRadius == 1

\* how many checks a run makes
MaxChecks == 4

GeofenceIds == 1..NumGeofences

Tasks == 1..NumTasks

NoTask == 0

Records == {"r1"}

NULL == "NULL"

None == "None"

VARIABLES
  server_url,     \* SyncEngine.server_url: None or the endpoint
  status,         \* SyncEngine.status
  outbox,         \* table sync_outbox, in created_at order
  docs,           \* table crdt_documents: record_id -> {} or {bytes}
  inbox,          \* table sync_inbox, in insertion order
  lock,           \* AppState.sync_engine: the task holding the write guard
  offline_mode,   \* AppState.offline_mode
  pc,             \* where each invocation of the command stands
  loc,            \* the locals of each invocation's sync_now / perform_sync
  pre,            \* status, outbox and inbox as sync_now found them
  ret,            \* what sync_now returned to the command
  dev_doc,        \* two-device scenario: each device's stored document
  srv_doc,        \* two-device scenario: the document the server holds
  dev_stage,      \* two-device scenario: how far each device has come
  dev_seen,       \* two-device scenario: whose pushes a device's pull saw
  replica,        \* replicated documents: each replica's document instance
  pushed,         \* replicated documents: the delta of every pushed operation
  writes_left,    \* replicated documents: writes the run may still make
  outbox_cap,     \* how many rows the run lets the services queue
  message,        \* wire format: the SyncMessage a sender built, if any
  wire,           \* wire format: its JSON text, once encoded
  decoded,        \* wire format: what the receiver's decoding returned
  settings,       \* device identity: table settings, in insertion order
  opener,         \* device identity: each caller of SyncEngine::new
  minted,         \* device identity: how many uuids have been generated
  seen,           \* status reads: what get_sync_status last returned, if any
  previous_states, \* geofences: GeofenceChecker.previous_states
  fence_result,   \* geofences: what check_with_tracking last returned
  checks          \* geofences: how many checks have been made

engine_vars == <<server_url, status, outbox, docs, inbox, lock, offline_mode,
                 pc, loc, pre, ret>>

scenario_vars == <<dev_doc, srv_doc, dev_stage, dev_seen>>

crdt_vars == <<replica, pushed, writes_left>>

\* the state of the stand-alone component models
queue_vars == <<outbox_cap>>

wire_vars == <<message, wire, decoded>>

device_vars == <<settings, opener, minted>>

reader_vars == <<seen>>

geofence_vars == <<previous_states, fence_result, checks>>

lab_vars == <<crdt_vars, queue_vars, wire_vars, device_vars, reader_vars,
              geofence_vars>>

vars == <<engine_vars, scenario_vars, lab_vars>>

\* SyncEngine::new: the status a fresh engine starts with
InitStatus ==
  [is_syncing |-> FALSE, last_sync_at |-> 0, pending_changes |-> 0,
   sync_errors |-> 0, last_error |-> None, connection_status |-> "Unknown"]

NoLocals ==
  [entered |-> FALSE, pending |-> <<>>, i |-> 1, changes |-> <<>>,
   result |-> Ok("")]

NoSnapshot == [status |-> InitStatus, outbox |-> <<>>, inbox |-> <<>>]

NoReturn == [ok |-> TRUE, val |-> InitStatus, err |-> "unset"]

\* a faulty insert: the row is stamped as sent when it is queued
OutboxItem_marked_sent(id, table_name, record_id, operation, payload) ==
  [id |-> id, table_name |-> table_name, record_id |-> record_id,
   operation |-> operation, payload |-> payload, version |-> 1,
   sent_at |-> "now", acknowledged_at |-> NULL]

\* a row of sync_outbox as queue_change inserts it
OutboxItem(id, table_name, record_id, operation, payload) ==
  [id |-> id, table_name |-> table_name, record_id |-> record_id,
   operation |-> operation, payload |-> payload, version |-> 1,
   sent_at |-> NULL, acknowledged_at |-> NULL]

\* the document the server holds for a record, built through the
\* document's own operations
ServerDoc(r) == set(new(1), "quantity", V_int(50))

ServerChange(record_id, bytes) ==
  [table_name |-> "inventory", record_id |-> record_id,
   operation |-> "MERGE", crdt_changes |-> bytes]

ServerChanges ==
  {ServerChange(r, b) : r \in Records, b \in {CorruptBytes}} \cup
  {ServerChange(r, save(ServerDoc(r))) : r \in Records}

\* what a pull can deliver: a page of change records.  The transport in
\* engine.rs is a placeholder that delivers the empty page only; the other
\* pages are those of the sync protocol (protocol.rs: SyncResponse).
Responses ==
  UNION {[1..n -> ServerChanges] : n \in 0..MaxChanges}

(***************************************************************************)
(* Storage helpers: the statements the engine runs on sync_outbox.         *)
(***************************************************************************)
Min(a, b) == IF a < b THEN a ELSE b

\* a faulty query: ORDER BY created_at DESC, the newest item first
get_pending_changes_newest_first(ob) ==
  LET unsent == SelectSeq(ob, LAMBDA it : it.sent_at = NULL)
      n      == Min(Len(unsent), BatchLimit)
  IN  [k \in 1..n |-> unsent[Len(unsent) + 1 - k].id]

\* SELECT ... WHERE sent_at IS NULL ORDER BY created_at ASC LIMIT 100
get_pending_changes(ob) ==
  LET unsent == SelectSeq(ob, LAMBDA it : it.sent_at = NULL)
  IN  [k \in 1..Min(Len(unsent), BatchLimit) |-> unsent[k].id]

\* a faulty send: the row is not stamped
mark_sent_skipped(ob, id) == ob

\* UPDATE sync_outbox SET sent_at = datetime('now') WHERE id = ?
mark_sent(ob, id) ==
  [k \in DOMAIN ob |->
     IF ob[k].id = id THEN [ob[k] EXCEPT !.sent_at = "now"] ELSE ob[k]]

\* UPDATE sync_outbox SET acknowledged_at = datetime('now') WHERE id = ?
mark_change_acknowledged(ob, id) ==
  [k \in DOMAIN ob |->
     IF ob[k].id = id THEN [ob[k] EXCEPT !.acknowledged_at = "now"]
     ELSE ob[k]]

\* SELECT COUNT(*) FROM sync_outbox WHERE acknowledged_at IS NULL
CountUnacknowledged(ob) ==
  Cardinality({k \in DOMAIN ob : ob[k].acknowledged_at = NULL})

\* a faulty count: the items not yet sent instead of the items not yet
\* acknowledged
update_pending_count_unsent(st, ob, query_fails) ==
  IF query_fails
  THEN Err("Database error", st)
  ELSE Ok([st EXCEPT !.pending_changes = Len(get_pending_changes(ob))])

\* update_pending_count: the count query may fail, and then the status
\* keeps the count it had
update_pending_count(st, ob, query_fails) ==
  IF query_fails
  THEN Err("Database error", st)
  ELSE Ok([st EXCEPT !.pending_changes = CountUnacknowledged(ob)])

\* CrdtDocument::to_json: the readable content of the document
to_json(doc) ==
  {<<o.obj, o.key, o.value>> :
     o \in {q \in doc.ops : q.insert \/ q \in get(doc, q.obj, q.key)}}

InboxRow(change, doc) ==
  [table_name |-> change.table_name, record_id |-> change.record_id,
   operation |-> "MERGE", payload |-> to_json(doc), server_version |-> 0]

\* apply_server_change, the document part: load the stored document and
\* merge the incoming bytes into it, or build the document from them
merge_incoming(stored, incoming, actor) ==
  IF stored = {} THEN from_changes(incoming, actor)
  ELSE LET existing == from_changes(CHOOSE b \in stored : TRUE, actor)
       IN  IF existing.ok THEN merge(existing.val, incoming) ELSE existing

\* apply_server_change on the tables (d = crdt_documents, ib = sync_inbox);
\* fault names the storage statement that fails, if one does
apply_server_change(d, ib, change, fault, actor) ==
  LET merged == merge_incoming(d[change.record_id], change.crdt_changes,
                               actor)
      d1     == [d EXCEPT ![change.record_id] = {save(merged.val)}]
  IN  IF fault = "load" THEN [result |-> Err("Database error", ""),
                              docs |-> d, inbox |-> ib]
      ELSE IF ~merged.ok THEN [result |-> Err(merged.err, ""),
                               docs |-> d, inbox |-> ib]
      ELSE IF fault = "save" THEN [result |-> Err("Database error", ""),
                                   docs |-> d, inbox |-> ib]
      ELSE IF fault = "inbox" THEN [result |-> Err("Database error", ""),
                                    docs |-> d1, inbox |-> ib]
      ELSE [result |-> Ok(""), docs |-> d1,
            inbox |-> Append(ib, InboxRow(change, merged.val))]

(***************************************************************************)
(* The sync_now command and SyncEngine::sync_now, step by step.            *)
(***************************************************************************)
\* a failure inside the pass is counted in sync_errors: the counter's cap
CanFail == status.sync_errors < MaxSyncErrors

\* a faulty guard: the engine handed out without exclusion
LockFree_always == TRUE

\* tokio RwLock::write: granted when nobody holds the engine
LockFree == lock = NoTask

InPass(t) == pc[t] \in {"get_pending", "send", "fetch", "apply", "ack",
                        "finish"}

AfterApply(l) == IF Len(l.pending) > 0 THEN "ack" ELSE "finish"

AfterFetch(l) == IF Len(l.changes) > 0 THEN "apply" ELSE AfterApply(l)

AfterGet(l) == IF Len(l.pending) > 0 THEN "send" ELSE "fetch"

\* the command reads offline_mode: when it is set the command returns
\* "Cannot sync while in offline mode" and nothing has changed; otherwise
\* it asks for the engine's write guard
CmdSyncNow(t) ==
  /\ pc[t] = "idle"
  /\ status.last_sync_at < MaxSyncTime
  /\ IF offline_mode
     THEN pc' = pc
     ELSE pc' = [pc EXCEPT ![t] = "wait_lock"]
  /\ UNCHANGED <<lab_vars, scenario_vars, server_url, status, outbox, docs,
                 inbox, lock, offline_mode, loc, pre, ret>>

\* state.sync_engine.write().await returns the guard; sync_now is called
AcquireWrite(t) ==
  /\ pc[t] = "wait_lock"
  /\ LockFree
  /\ lock' = t
  /\ pc' = [pc EXCEPT ![t] = "check"]
  /\ pre' = [pre EXCEPT ![t] = [status |-> status, outbox |-> outbox,
                               inbox |-> inbox]]
  /\ UNCHANGED <<lab_vars, scenario_vars, server_url, status, outbox, docs,
                 inbox, offline_mode, loc, ret>>

\* faulty checks: is_syncing raised before the endpoint is looked at
SyncNowCheck_sets_first(t) ==
  /\ pc[t] = "check"
  /\ IF status.is_syncing
     THEN /\ pc' = [pc EXCEPT ![t] = "ret"]
          /\ ret' = [ret EXCEPT ![t] =
                       Err("Sync error: Sync already in progress",
                           InitStatus)]
          /\ status' = status
     ELSE IF server_url = None
     THEN /\ pc' = [pc EXCEPT ![t] = "ret"]
          /\ ret' = [ret EXCEPT ![t] =
                       Err("Sync error: No server URL configured",
                           InitStatus)]
          /\ status' = [status EXCEPT !.is_syncing = TRUE]
     ELSE /\ pc' = [pc EXCEPT ![t] = "set"]
          /\ ret' = ret
          /\ status' = status
  /\ UNCHANGED <<lab_vars, scenario_vars, server_url, outbox, docs, inbox,
                 lock, offline_mode, loc, pre>>

\* sync_now: the two precondition checks
SyncNowCheck(t) ==
  /\ pc[t] = "check"
  /\ IF status.is_syncing
     THEN /\ pc' = [pc EXCEPT ![t] = "ret"]
          /\ ret' = [ret EXCEPT ![t] =
                       Err("Sync error: Sync already in progress",
                           InitStatus)]
     ELSE IF server_url = None
     THEN /\ pc' = [pc EXCEPT ![t] = "ret"]
          /\ ret' = [ret EXCEPT ![t] =
                       Err("Sync error: No server URL configured",
                           InitStatus)]
     ELSE /\ pc' = [pc EXCEPT ![t] = "set"]
          /\ ret' = ret
  /\ UNCHANGED <<lab_vars, scenario_vars, server_url, status, outbox, docs,
                 inbox, lock, offline_mode, loc, pre>>

\* sync_now: is_syncing = true
SyncNowSet(t) ==
  /\ pc[t] = "set"
  /\ status' = [status EXCEPT !.is_syncing = TRUE]
  /\ loc' = [loc EXCEPT ![t].entered = TRUE]
  /\ pc' = [pc EXCEPT ![t] = "get_pending"]
  /\ UNCHANGED <<lab_vars, scenario_vars, server_url, outbox, docs, inbox,
                 lock, offline_mode, pre, ret>>

\* perform_sync gives up with the error of the step that failed
PassFails(t, msg) ==
  /\ CanFail
  /\ loc' = [loc EXCEPT ![t].result = Err(msg, "")]
  /\ pc' = [pc EXCEPT ![t] = "finish"]

\* perform_sync step 1: read the outbox
GetPendingChanges(t) ==
  /\ pc[t] = "get_pending"
  /\ \E query_fails \in BOOLEAN :
       IF query_fails
       THEN PassFails(t, "Database error")
       ELSE LET l == [loc[t] EXCEPT !.pending = get_pending_changes(outbox),
                                    !.i = 1]
            IN  /\ loc' = [loc EXCEPT ![t] = l]
                /\ pc' = [pc EXCEPT ![t] = AfterGet(l)]
  /\ UNCHANGED <<lab_vars, scenario_vars, server_url, status, outbox, docs,
                 inbox, lock, offline_mode, pre, ret>>

\* perform_sync step 2, one turn of the loop: send_change
SendChange(t) ==
  /\ pc[t] = "send"
  /\ \E update_fails \in BOOLEAN :
       IF update_fails
       THEN PassFails(t, "Database error") /\ outbox' = outbox
       ELSE /\ outbox' = mark_sent(outbox, loc[t].pending[loc[t].i])
            /\ IF loc[t].i < Len(loc[t].pending)
               THEN /\ loc' = [loc EXCEPT ![t].i = @ + 1]
                    /\ pc' = pc
               ELSE /\ loc' = [loc EXCEPT ![t].i = 1]
                    /\ pc' = [pc EXCEPT ![t] = "fetch"]
  /\ UNCHANGED <<lab_vars, scenario_vars, server_url, status, docs, inbox,
                 lock, offline_mode, pre, ret>>

\* perform_sync step 3: fetch_server_changes(..)?; the answer is the
\* transport's: a page of changes (the placeholder's empty page among
\* them), or a failure
FetchServerChanges(t) ==
  /\ pc[t] = "fetch"
  /\ \/ PassFails(t, "Network error")
     \/ \E resp \in Responses :
          /\ Len(inbox) + Len(resp) <= MaxInbox
          /\ (\E k \in DOMAIN resp : ~resp[k].crdt_changes.valid) => CanFail
          /\ LET l == [loc[t] EXCEPT !.changes = resp, !.i = 1]
             IN  /\ loc' = [loc EXCEPT ![t] = l]
                 /\ pc' = [pc EXCEPT ![t] = AfterFetch(l)]
  /\ UNCHANGED <<lab_vars, scenario_vars, server_url, status, outbox, docs,
                 inbox, lock, offline_mode, pre, ret>>

\* perform_sync step 4, one turn of the loop: apply_server_change(..)?
ApplyServerChange(t) ==
  /\ pc[t] = "apply"
  /\ \E fault \in {"none", "load", "save", "inbox"}, actor \in Actors :
       LET out == apply_server_change(docs, inbox, loc[t].changes[loc[t].i],
                                      fault, actor)
       IN  /\ fault # "none" => CanFail
           /\ docs' = out.docs
           /\ inbox' = out.inbox
           /\ IF ~out.result.ok
              THEN /\ loc' = [loc EXCEPT ![t].result = out.result]
                   /\ pc' = [pc EXCEPT ![t] = "finish"]
              ELSE IF loc[t].i < Len(loc[t].changes)
              THEN /\ loc' = [loc EXCEPT ![t].i = @ + 1]
                   /\ pc' = pc
              ELSE /\ loc' = [loc EXCEPT ![t].i = 1, ![t].changes = <<>>]
                   /\ pc' = [pc EXCEPT ![t] = AfterApply(loc[t])]
  /\ UNCHANGED <<lab_vars, scenario_vars, server_url, status, outbox, lock,
                 offline_mode, pre, ret>>

\* perform_sync step 5, one turn of the loop: mark_change_acknowledged
MarkChangeAcknowledged(t) ==
  /\ pc[t] = "ack"
  /\ \E update_fails \in BOOLEAN :
       IF update_fails
       THEN PassFails(t, "Database error") /\ outbox' = outbox
       ELSE /\ outbox' = mark_change_acknowledged(outbox,
                                                  loc[t].pending[loc[t].i])
            /\ IF loc[t].i < Len(loc[t].pending)
               THEN /\ loc' = [loc EXCEPT ![t].i = @ + 1]
                    /\ pc' = pc
               ELSE /\ loc' = [loc EXCEPT ![t].i = 1]
                    /\ pc' = [pc EXCEPT ![t] = "finish"]
  /\ UNCHANGED <<lab_vars, scenario_vars, server_url, status, docs, inbox,
                 lock, offline_mode, pre, ret>>

\* a faulty match: the failure arm stamps last_sync_at as well
PassOutcome_stamps_failure(st, result) ==
  IF result.ok
  THEN [st EXCEPT !.last_sync_at = @ + 1, !.sync_errors = 0,
                  !.last_error = None]
  ELSE [st EXCEPT !.last_sync_at = @ + 1, !.sync_errors = @ + 1,
                  !.last_error = result.err]

\* sync_now's match on the pass's result: the status after either arm
PassOutcome(st, result) ==
  IF result.ok
  THEN [st EXCEPT !.last_sync_at = @ + 1, !.sync_errors = 0,
                  !.last_error = None]
  ELSE [st EXCEPT !.sync_errors = @ + 1, !.last_error = result.err]

\* sync_now after perform_sync: record the outcome, is_syncing = false,
\* update_pending_count()?, Ok(status)
SyncNowFinish(t) ==
  /\ pc[t] = "finish"
  /\ \E query_fails \in BOOLEAN :
       LET st  == [PassOutcome(status, loc[t].result)
                     EXCEPT !.is_syncing = FALSE]
           upd == update_pending_count(st, outbox, query_fails)
       IN  /\ status' = upd.val
           /\ ret' = [ret EXCEPT ![t] =
                        IF upd.ok THEN Ok(upd.val)
                        ELSE Err(upd.err, InitStatus)]
  /\ pc' = [pc EXCEPT ![t] = "ret"]
  /\ loc' = [loc EXCEPT ![t].pending = <<>>, ![t].changes = <<>>,
                        ![t].i = 1]
  /\ UNCHANGED <<lab_vars, scenario_vars, server_url, outbox, docs, inbox,
                 lock, offline_mode, pre>>

\* the command returns: the write guard is dropped
CmdReturn(t) ==
  /\ pc[t] = "ret"
  /\ lock' = IF lock = t THEN NoTask ELSE lock
  /\ pc' = [pc EXCEPT ![t] = "idle"]
  /\ loc' = [loc EXCEPT ![t] = NoLocals]
  /\ pre' = [pre EXCEPT ![t] = NoSnapshot]
  /\ ret' = [ret EXCEPT ![t] = NoReturn]
  /\ UNCHANGED <<lab_vars, scenario_vars, server_url, status, outbox, docs,
                 inbox, offline_mode>>

\* queue_change(&self): runs only while nobody holds the engine exclusively
QueueChange(record_id, operation) ==
  /\ lock = NoTask
  /\ Len(outbox) < outbox_cap
  /\ outbox' = Append(outbox, OutboxItem(Len(outbox) + 1, "inventory",
                                         record_id, operation, "{}"))
  /\ UNCHANGED <<lab_vars, scenario_vars, server_url, status, docs, inbox,
                 lock, offline_mode, pc, loc, pre, ret>>

\* the set_offline_mode command
SetOfflineMode(offline) ==
  /\ offline_mode # offline
  /\ offline_mode' = offline
  /\ UNCHANGED <<lab_vars, scenario_vars, server_url, status, outbox, docs,
                 inbox, lock, pc, loc, pre, ret>>

EngineInit ==
  /\ server_url \in {None, "http://server"}
  /\ status = InitStatus
  /\ outbox = <<>>
  /\ docs = [r \in Records |-> {}]
  /\ inbox = <<>>
  /\ lock = NoTask
  /\ offline_mode = FALSE
  /\ pc = [t \in Tasks |-> "idle"]
  /\ loc = [t \in Tasks |-> NoLocals]
  /\ pre = [t \in Tasks |-> NoSnapshot]
  /\ ret = [t \in Tasks |-> NoReturn]

EngineIdle ==
  /\ server_url = None
  /\ status = InitStatus
  /\ outbox = <<>>
  /\ docs = [r \in Records |-> {}]
  /\ inbox = <<>>
  /\ lock = NoTask
  /\ offline_mode = FALSE
  /\ pc = [t \in Tasks |-> "idle"]
  /\ loc = [t \in Tasks |-> NoLocals]
  /\ pre = [t \in Tasks |-> NoSnapshot]
  /\ ret = [t \in Tasks |-> NoReturn]

ScenarioIdle ==
  /\ dev_doc = <<>>
  /\ srv_doc = {}
  /\ dev_stage = <<>>
  /\ dev_seen = <<>>

CrdtIdle ==
  /\ replica = <<>>
  /\ pushed = <<>>
  /\ writes_left = 0

\* the services may queue up to MaxOutbox rows
QueueIdle == outbox_cap = MaxOutbox

WireIdle ==
  /\ message = {}
  /\ wire = {}
  /\ decoded = {}

DeviceIdle ==
  /\ settings = <<>>
  /\ opener = <<>>
  /\ minted = 0

\* no status has been read
ReaderIdle == seen = {}

\* a checker that is never used: GeofenceChecker::new
GeofenceIdle ==
  /\ previous_states = [g \in GeofenceIds |-> {}]
  /\ fence_result = {}
  /\ checks = 0

LabIdle ==
  /\ CrdtIdle /\ QueueIdle /\ WireIdle /\ DeviceIdle
  /\ ReaderIdle /\ GeofenceIdle

Init == EngineInit /\ ScenarioIdle /\ LabIdle

Next ==
  \/ \E t \in Tasks : CmdSyncNow(t)
  \/ \E t \in Tasks : AcquireWrite(t)
  \/ \E t \in Tasks : SyncNowCheck(t)
  \/ \E t \in Tasks : SyncNowSet(t)
  \/ \E t \in Tasks : GetPendingChanges(t)
  \/ \E t \in Tasks : SendChange(t)
  \/ \E t \in Tasks : FetchServerChanges(t)
  \/ \E t \in Tasks : ApplyServerChange(t)
  \/ \E t \in Tasks : MarkChangeAcknowledged(t)
  \/ \E t \in Tasks : SyncNowFinish(t)
  \/ \E t \in Tasks : CmdReturn(t)
  \/ \E r \in Records, op \in {"UPDATE"} : QueueChange(r, op)
  \/ \E b \in BOOLEAN : SetOfflineMode(b)

Spec == Init /\ [][Next]_vars

\* the future of the command is dropped while sync_now is suspended at one
\* of perform_sync's awaits (send_change, fetch_server_changes): the write
\* guard and the locals go, no further statement of sync_now runs
Abandon(t) ==
  /\ pc[t] \in {"send", "fetch"}
  /\ lock' = NoTask
  /\ pc' = [pc EXCEPT ![t] = "idle"]
  /\ loc' = [loc EXCEPT ![t] = NoLocals]
  /\ pre' = [pre EXCEPT ![t] = NoSnapshot]
  /\ ret' = [ret EXCEPT ![t] = NoReturn]
  /\ UNCHANGED <<lab_vars, scenario_vars, server_url, status, outbox, docs,
                 inbox, offline_mode>>

\* the engine whose callers may give up a call they are waiting for
CancelNext ==
  \/ Next
  \/ \E t \in Tasks : Abandon(t)

SpecCancel == Init /\ [][CancelNext]_vars

\* a faulty guard: the status handed out while a pass holds the engine
ReadLockFree_always == TRUE

\* tokio RwLock::read: granted when no task holds the write guard
ReadLockFree == lock = NoTask

\* SyncEngine::get_status
get_status == status

\* the get_sync_status command: the read guard is held for the one
\* statement that clones the status
GetSyncStatus ==
  /\ ReadLockFree
  /\ seen' = {get_status}
  /\ UNCHANGED <<engine_vars, scenario_vars, crdt_vars, queue_vars,
                 wire_vars, device_vars, geofence_vars>>

\* the engine with a user interface that polls the status
StatusNext ==
  \/ Next
  \/ GetSyncStatus

SpecStatus == Init /\ [][StatusNext]_vars

\* the engine with services that queue up to MaxQueued rows
MaxQueued == 2

InitQueue ==
  /\ EngineInit /\ ScenarioIdle /\ CrdtIdle /\ WireIdle /\ DeviceIdle
  /\ ReaderIdle /\ GeofenceIdle
  /\ outbox_cap = MaxQueued

SpecQueue == InitQueue /\ [][Next]_vars

(***************************************************************************)
(* Two devices adjusting one record's accumulation list while              *)
(* disconnected, then syncing against one server.  The server keeps one    *)
(* document per record and folds every pushed history into it.             *)
(***************************************************************************)
Devices == {"A", "B"}

ListKey == "adjustments"

DeviceDelta(d) == IF d = "A" THEN 50 ELSE 0 - 20

ActorsOf(stored) == {o.id[2] : o \in UNION {b.ops : b \in stored}}

UsedActors ==
  ActorsOf(srv_doc) \cup UNION {ActorsOf(dev_doc[d]) : d \in Devices}

StoredSum(stored) ==
  IF stored = {} THEN 0
  ELSE calculate_sum(from_changes(CHOOSE b \in stored : TRUE, 1).val, ListKey)

\* the device records its adjustment in its document for the record: the
\* stored one, or a fresh one when it has none
DevAdjust(d) ==
  /\ dev_stage[d] = "offline"
  /\ \E actor \in Actors \ UsedActors :
       LET doc == IF dev_doc[d] = {} THEN new(actor)
                  ELSE from_changes(CHOOSE b \in dev_doc[d] : TRUE, actor).val
           res == push_operation(doc, ListKey,
                                 CrdtOperation(d, "adjust", DeviceDelta(d), d))
       IN  /\ res.ok
           /\ dev_doc' = [dev_doc EXCEPT ![d] = {save(res.val)}]
  /\ dev_stage' = [dev_stage EXCEPT ![d] = "adjusted"]
  /\ UNCHANGED <<lab_vars, engine_vars, srv_doc, dev_seen>>

\* the device pushes its document's history; the server folds it in
DevPush(d) ==
  /\ dev_stage[d] = "adjusted"
  /\ \E actor \in Actors :
       srv_doc' = {save(merge_incoming(srv_doc,
                                       CHOOSE b \in dev_doc[d] : TRUE,
                                       actor).val)}
  /\ dev_stage' = [dev_stage EXCEPT ![d] = "pushed"]
  /\ UNCHANGED <<lab_vars, engine_vars, dev_doc, dev_seen>>

\* the device pulls: the server's history for the record goes through
\* apply_server_change
DevPull(d) ==
  /\ dev_stage[d] = "pushed"
  /\ \E actor \in Actors :
       dev_doc' = [dev_doc EXCEPT ![d] =
                     {save(merge_incoming(dev_doc[d],
                                          CHOOSE b \in srv_doc : TRUE,
                                          actor).val)}]
  /\ dev_seen' = [dev_seen EXCEPT ![d] =
                    {e \in Devices : dev_stage[e] \in {"pushed", "pulled"}}]
  /\ dev_stage' = [dev_stage EXCEPT ![d] = "pulled"]
  /\ UNCHANGED <<lab_vars, engine_vars, srv_doc>>

\* both devices start from nothing, or from one document that already
\* holds the list and that the server holds too
ScenarioInit ==
  /\ \E stored \in {{}} \cup
                   {{save(create_list(new(a), ListKey))} : a \in Actors} :
       /\ dev_doc = [d \in Devices |-> stored]
       /\ srv_doc = stored
  /\ dev_stage = [d \in Devices |-> "offline"]
  /\ dev_seen = [d \in Devices |-> {}]

ScenarioNext ==
  \/ \E d \in Devices : DevAdjust(d)
  \/ \E d \in Devices : DevPush(d)
  \/ \E d \in Devices : DevPull(d)

InitScenario == EngineIdle /\ ScenarioInit /\ LabIdle

SpecScenario == InitScenario /\ [][ScenarioNext]_vars

(***************************************************************************)
(* Replicated documents on their own: two replicas of one document that    *)
(* are written independently (set, push_operation), exchanged (save, then  *)
(* merge) and stored and reloaded (save, then from_changes).               *)
(***************************************************************************)
\* set and push_operation calls a run makes in all
MaxWrites == 3

\* the same, for runs in which replicas are also stored and reloaded
MaxStoredWrites == 2

Replicas == {"A", "B"}

ScalarKeys == {"name", "quantity"}

\* a key nothing is ever written to
AbsentKey == "absent"

AllKeys == ScalarKeys \cup {ListKey, AbsentKey}

\* the values a set call writes
SetValues == {V_str("v1"), V_int(7)}

\* the delta the n-th push_operation call carries: +100, -25, -10 as in
\* test_inventory_operations, and over again
DeltaOf(n) ==
  IF n % 3 = 1 THEN 100 ELSE IF n % 3 = 2 THEN 0 - 25 ELSE 0 - 10

\* the actor identifiers no replica has written or is writing under
FreeActors ==
  Actors \ UNION {{replica[r].actor} \cup {o.id[2] : o \in replica[r].ops} :
                    r \in Replicas}

\* doc.set(key, value)
DoSet(r, key, value) ==
  /\ writes_left > 0
  /\ replica' = [replica EXCEPT ![r] = set(@, key, value)]
  /\ writes_left' = writes_left - 1
  /\ UNCHANGED <<engine_vars, scenario_vars, reader_vars, geofence_vars,
                 queue_vars, wire_vars, device_vars, pushed>>

\* doc.push_operation(list_key, &CrdtOperation::new(..)): the operation's
\* id is a fresh one
DoPushOperation(r) ==
  /\ writes_left > 0
  /\ LET operation == CrdtOperation(ToString(Len(pushed) + 1), "adjust",
                                    DeltaOf(Len(pushed) + 1), r)
         res       == push_operation(replica[r], ListKey, operation)
     IN  /\ res.ok
         /\ replica' = [replica EXCEPT ![r] = res.val]
  /\ pushed' = Append(pushed, DeltaOf(Len(pushed) + 1))
  /\ writes_left' = writes_left - 1
  /\ UNCHANGED <<engine_vars, scenario_vars, reader_vars, geofence_vars,
                 queue_vars, wire_vars, device_vars>>

\* r.merge(&s.save())
DoMerge(r, s) ==
  /\ r # s
  /\ LET res == merge(replica[r], save(replica[s]))
     IN  /\ res.ok
         /\ res.val # replica[r]
         /\ replica' = [replica EXCEPT ![r] = res.val]
  /\ UNCHANGED <<engine_vars, scenario_vars, reader_vars, geofence_vars,
                 queue_vars, wire_vars, device_vars, pushed, writes_left>>

\* the replica is stored and loaded again: from_changes(&doc.save())
DoSaveLoad(r) ==
  /\ \E actor \in FreeActors :
       LET res == from_changes(save(replica[r]), actor)
       IN  /\ res.ok
           /\ replica' = [replica EXCEPT ![r] = res.val]
  /\ UNCHANGED <<engine_vars, scenario_vars, reader_vars, geofence_vars,
                 queue_vars, wire_vars, device_vars, pushed, writes_left>>

\* replica A is the document as first made, empty or with the list
\* created; replica B is loaded from A's saved bytes
CrdtInit(writes) ==
  /\ \E ancestor \in {new(1), create_list(new(1), ListKey)} :
       replica = [r \in Replicas |->
                    IF r = "A" THEN ancestor
                    ELSE from_changes(save(ancestor), 2).val]
  /\ pushed = <<>>
  /\ writes_left = writes

CrdtNext ==
  \/ \E r \in Replicas, key \in ScalarKeys, value \in SetValues :
       DoSet(r, key, value)
  \/ \E r \in Replicas : DoPushOperation(r)
  \/ \E r, s \in Replicas : DoMerge(r, s)

InitCrdt ==
  /\ EngineIdle /\ ScenarioIdle /\ QueueIdle /\ WireIdle /\ DeviceIdle
  /\ ReaderIdle /\ GeofenceIdle
  /\ CrdtInit(MaxWrites)

SpecCrdt == InitCrdt /\ [][CrdtNext]_vars

\* doc.create_list(key)
DoCreateList(r) ==
  /\ writes_left > 0
  /\ replica' = [replica EXCEPT ![r] = create_list(@, ListKey)]
  /\ writes_left' = writes_left - 1
  /\ UNCHANGED <<engine_vars, scenario_vars, reader_vars, geofence_vars,
                 queue_vars, wire_vars, device_vars, pushed>>

\* replicas whose callers also ask for the list by create_list
CrdtListNext ==
  \/ \E r \in Replicas : DoPushOperation(r)
  \/ \E r \in Replicas : DoCreateList(r)
  \/ \E r, s \in Replicas : DoMerge(r, s)

SpecCrdtList == InitCrdt /\ [][CrdtListNext]_vars

CrdtStoreNext ==
  \/ \E r \in Replicas, value \in SetValues : DoSet(r, "quantity", value)
  \/ \E r \in Replicas : DoPushOperation(r)
  \/ \E r, s \in Replicas : DoMerge(r, s)
  \/ \E r \in Replicas : DoSaveLoad(r)

InitCrdtStore ==
  /\ EngineIdle /\ ScenarioIdle /\ QueueIdle /\ WireIdle /\ DeviceIdle
  /\ ReaderIdle /\ GeofenceIdle
  /\ CrdtInit(MaxStoredWrites)

SpecCrdtStore == InitCrdtStore /\ [][CrdtStoreNext]_vars

(***************************************************************************)
(* The wire format: a SyncMessage encoded to JSON and decoded again.  An   *)
(* Option is the empty set or a singleton; a JSON object is a function on  *)
(* the names of the fields it holds.                                       *)
(***************************************************************************)
\* the longest change bytes and the most change records in a message
MaxBytes == 3

MaxRecords == 2

ByteValues == {0, 255}

BytesSeqs == UNION {[1..n -> ByteValues] : n \in 0..MaxBytes}

\* base64, STANDARD engine: text is a sequence of 6-bit symbols and PAD
PAD == 64

RECURSIVE encode(_)
encode(b) ==
  IF Len(b) = 0 THEN <<>>
  ELSE IF Len(b) = 1
  THEN <<b[1] \div 4, (b[1] % 4) * 16, PAD, PAD>>
  ELSE IF Len(b) = 2
  THEN <<b[1] \div 4, (b[1] % 4) * 16 + b[2] \div 16, (b[2] % 16) * 4,
         PAD>>
  ELSE <<b[1] \div 4, (b[1] % 4) * 16 + b[2] \div 16,
         (b[2] % 16) * 4 + b[3] \div 64, b[3] % 64>>
         \o encode(SubSeq(b, 4, Len(b)))

\* STANDARD.decode: canonical padding, no stray bits; {} stands for Err
RECURSIVE decode(_)
decode(s) ==
  IF Len(s) = 0 THEN {<<>>}
  ELSE IF Len(s) < 4 \/ s[1] = PAD \/ s[2] = PAD THEN {}
  ELSE IF s[3] = PAD
  THEN IF Len(s) = 4 /\ s[4] = PAD /\ s[2] % 16 = 0
       THEN {<<s[1] * 4 + s[2] \div 16>>}
       ELSE {}
  ELSE IF s[4] = PAD
  THEN IF Len(s) = 4 /\ s[3] % 4 = 0
       THEN {<<s[1] * 4 + s[2] \div 16, (s[2] % 16) * 16 + s[3] \div 4>>}
       ELSE {}
  ELSE {<<s[1] * 4 + s[2] \div 16, (s[2] % 16) * 16 + s[3] \div 4,
          (s[3] % 4) * 64 + s[4]>> \o rest :
          rest \in decode(SubSeq(s, 5, Len(s)))}

\* ChangeOperation, #[serde(rename_all = "UPPERCASE")]
ChangeOperations == {"Insert", "Update", "Delete", "Merge"}

ChangeOperation_serialize(op) ==
  CASE op = "Insert" -> "INSERT"
    [] op = "Update" -> "UPDATE"
    [] op = "Delete" -> "DELETE"
    [] op = "Merge" -> "MERGE"

ChangeOperation_deserialize(text) ==
  {op \in ChangeOperations : ChangeOperation_serialize(op) = text}

\* ChangeRecord::json and ChangeRecord::crdt
ChangeRecord_json(record_id, operation, payload) ==
  [id |-> "change", table_name |-> "inventory", record_id |-> record_id,
   operation |-> operation, version |-> 1, timestamp |-> "now",
   actor_id |-> "device", json_payload |-> {payload}, crdt_changes |-> {}]

ChangeRecord_crdt(record_id, changes) ==
  [id |-> "change", table_name |-> "inventory", record_id |-> record_id,
   operation |-> "Merge", version |-> 1, timestamp |-> "now",
   actor_id |-> "device", json_payload |-> {}, crdt_changes |-> {changes}]

\* a JSON string or null as the value of an optional field
JsonStr(text) == [null |-> FALSE, str |-> text]

JsonNull == [null |-> TRUE, str |-> ""]

RequiredFields ==
  {"id", "table_name", "record_id", "operation", "version", "timestamp",
   "actor_id"}

\* Serialize for ChangeRecord: both optional fields are left out when
\* None (skip_serializing_if); the bytes go through base64_serde::serialize
ChangeRecord_serialize(r) ==
  [f \in RequiredFields
         \cup (IF r.json_payload = {} THEN {} ELSE {"json_payload"})
         \cup (IF r.crdt_changes = {} THEN {} ELSE {"crdt_changes"}) |->
     CASE f = "operation" -> ChangeOperation_serialize(r.operation)
       [] f = "json_payload" ->
            JsonStr(CHOOSE p \in r.json_payload : TRUE)
       [] f = "crdt_changes" ->
            JsonStr(encode(CHOOSE b \in r.crdt_changes : TRUE))
       [] OTHER -> r[f]]

\* base64_serde::deserialize on a field that is there: null is None, a
\* string is decoded
base64_serde_deserialize(value) ==
  IF value.null THEN Ok({})
  ELSE IF decode(value.str) = {}
  THEN Err("Invalid padding", {})
  ELSE Ok(decode(value.str))

NoRecord == ChangeRecord_json("", "Insert", "")

\* Deserialize for ChangeRecord: a missing json_payload is None; a missing
\* crdt_changes is an error, since a field read through a with-module has no
\* default for being absent
ChangeRecord_deserialize(obj) ==
  LET op    == ChangeOperation_deserialize(obj["operation"])
      bytes == base64_serde_deserialize(obj["crdt_changes"])
      missing == "missing field crdt_changes"
  IN  IF ~(RequiredFields \subseteq DOMAIN obj)
      THEN Err("missing field", NoRecord)
      ELSE IF op = {} THEN Err("unknown variant", NoRecord)
      ELSE IF "crdt_changes" \notin DOMAIN obj
      THEN Err(missing, NoRecord)
      ELSE IF ~bytes.ok THEN Err(bytes.err, NoRecord)
      ELSE Ok([id |-> obj["id"], table_name |-> obj["table_name"],
               record_id |-> obj["record_id"],
               operation |-> CHOOSE o \in op : TRUE,
               version |-> obj["version"], timestamp |-> obj["timestamp"],
               actor_id |-> obj["actor_id"],
               json_payload |->
                 IF "json_payload" \in DOMAIN obj
                      /\ ~obj["json_payload"].null
                 THEN {obj["json_payload"].str} ELSE {},
               crdt_changes |-> bytes.val])

\* SyncMessage::push and a response, as the peers build them
SyncMessage_push(changes) ==
  [id |-> "message", device_id |-> "device", timestamp |-> "now",
   payload |-> [variant |-> "Push", changes |-> changes]]

SyncMessage_response(changes) ==
  [id |-> "message", device_id |-> "server", timestamp |-> "now",
   payload |-> [variant |-> "Response", changes |-> changes]]

\* SyncPayload, #[serde(tag = "type", rename_all = "snake_case")]
SyncPayload_tag(variant) ==
  CASE variant = "Push" -> "push"
    [] variant = "Response" -> "response"

SyncPayload_variant(tag) ==
  {v \in {"Push", "Response"} : SyncPayload_tag(v) = tag}

\* serde_json::to_string(&message)
to_string(m) ==
  [id |-> m.id, device_id |-> m.device_id, timestamp |-> m.timestamp,
   payload |-> [type |-> SyncPayload_tag(m.payload.variant),
                changes |-> [k \in DOMAIN m.payload.changes |->
                               ChangeRecord_serialize(
                                 m.payload.changes[k])]]]

\* serde_json::from_str::<SyncMessage>(text): the first record that does
\* not decode fails the whole message
from_str(text) ==
  LET records == [k \in DOMAIN text.payload.changes |->
                    ChangeRecord_deserialize(text.payload.changes[k])]
      bad     == {k \in DOMAIN records : ~records[k].ok}
      variant == SyncPayload_variant(text.payload.type)
  IN  IF variant = {} THEN Err("unknown variant", {})
      ELSE IF bad # {}
      THEN Err(records[CHOOSE k \in bad : \A j \in bad : k <= j].err, {})
      ELSE Ok({[id |-> text.id, device_id |-> text.device_id,
                timestamp |-> text.timestamp,
                payload |-> [variant |-> CHOOSE v \in variant : TRUE,
                             changes |-> [k \in DOMAIN records |->
                                            records[k].val]]]})

\* every record the two helpers can build: json takes any operation
ChangeRecords ==
  {ChangeRecord_json(r, op, "{}") : r \in Records, op \in ChangeOperations}
  \cup {ChangeRecord_crdt(r, b) : r \in Records, b \in BytesSeqs}

\* the sender puts one more change record into the message it is building
AddChange(r) ==
  /\ wire = {}
  /\ \A m \in message : Len(m.payload.changes) < MaxRecords
  /\ message' = {[m EXCEPT !.payload.changes = Append(@, r)] :
                   m \in message}
  /\ UNCHANGED <<engine_vars, scenario_vars, reader_vars, geofence_vars,
                 crdt_vars, queue_vars, device_vars, wire, decoded>>

\* the sender encodes its message
Encode ==
  /\ message # {}
  /\ wire = {}
  /\ wire' = {to_string(m) : m \in message}
  /\ UNCHANGED <<engine_vars, scenario_vars, reader_vars, geofence_vars,
                 crdt_vars, queue_vars, device_vars, message, decoded>>

\* the receiver decodes the text
Decode ==
  /\ wire # {}
  /\ decoded = {}
  /\ decoded' = {from_str(text) : text \in wire}
  /\ UNCHANGED <<engine_vars, scenario_vars, reader_vars, geofence_vars,
                 crdt_vars, queue_vars, device_vars, message, wire>>

WireInit ==
  /\ \E r \in ChangeRecords :
       message \in {{SyncMessage_push(<<r>>)}, {SyncMessage_response(<<r>>)}}
  /\ wire = {}
  /\ decoded = {}

WireNext ==
  \/ \E r \in ChangeRecords : AddChange(r)
  \/ Encode
  \/ Decode

InitWire ==
  /\ EngineIdle /\ ScenarioIdle /\ CrdtIdle /\ QueueIdle /\ DeviceIdle
  /\ ReaderIdle /\ GeofenceIdle
  /\ WireInit

SpecWire == InitWire /\ [][WireNext]_vars

(***************************************************************************)
(* The device identity: SyncEngine::new on one store, called by several    *)
(* openers of the store.  get_or_create_device_id runs its SELECT and its  *)
(* INSERT as two statements.                                               *)
(***************************************************************************)
\* the openers of one store and the calls of SyncEngine::new each makes
NumOpeners == 2

MaxOpens == 2

Openers == 1..NumOpeners

DeviceIdKey == "device_id"

\* a faulty query: it looks under a key that is never written
select_device_id_wrong_key(rows) ==
  {rows[k].value : k \in {j \in DOMAIN rows : rows[j].key = "deviceid"}}

\* SELECT value FROM settings WHERE key = 'device_id'; {} is no row
select_device_id(rows) ==
  {rows[k].value : k \in {j \in DOMAIN rows : rows[j].key = DeviceIdKey}}

\* INSERT INTO settings (key, value, description): settings holds one row
\* per key, a second row for a key is refused
insert_setting(rows, key, value) ==
  IF \E k \in DOMAIN rows : rows[k].key = key
  THEN Err("UNIQUE constraint failed: settings.key", rows)
  ELSE Ok(Append(rows, [key |-> key, value |-> value]))

\* the device identifiers the store holds
StoredDeviceIds ==
  {settings[k].value :
     k \in {j \in DOMAIN settings : settings[j].key = DeviceIdKey}}

NoCall ==
  [pc |-> "idle", existing |-> {}, later |-> FALSE, found |-> {},
   ret |-> Ok(0), opens |-> 0]

\* SyncEngine::new is called
NewBegin(o) ==
  /\ opener[o].pc \in {"idle", "done"}
  /\ opener[o].opens < MaxOpens
  /\ opener' = [opener EXCEPT
                  ![o] = [pc |-> "select", existing |-> {},
                          later |-> StoredDeviceIds # {},
                          found |-> StoredDeviceIds,
                          ret |-> Ok(0), opens |-> @.opens + 1]]
  /\ UNCHANGED <<engine_vars, scenario_vars, reader_vars, geofence_vars,
                 crdt_vars, queue_vars, wire_vars, settings, minted>>

\* get_or_create_device_id: the query, and the early return on Some(id)
SelectDeviceId(o) ==
  /\ opener[o].pc = "select"
  /\ \E query_fails \in BOOLEAN :
       LET existing == select_device_id(settings)
       IN  opener' = [opener EXCEPT
             ![o].existing = existing,
             ![o].ret = IF query_fails THEN Err("Database error", 0)
                        ELSE IF existing # {}
                        THEN Ok(CHOOSE id \in existing : TRUE)
                        ELSE @,
             ![o].pc = IF query_fails \/ existing # {} THEN "done"
                       ELSE "insert"]
  /\ UNCHANGED <<engine_vars, scenario_vars, reader_vars, geofence_vars,
                 crdt_vars, queue_vars, wire_vars, settings, minted>>

\* get_or_create_device_id: a new uuid and the INSERT
InsertDeviceId(o) ==
  /\ opener[o].pc = "insert"
  /\ \E insert_fails \in BOOLEAN :
       LET new_id == minted + 1
           out    == insert_setting(settings, DeviceIdKey, new_id)
       IN  /\ minted' = new_id
           /\ settings' = IF insert_fails THEN settings ELSE out.val
           /\ opener' = [opener EXCEPT
                 ![o].ret = IF insert_fails THEN Err("Database error", 0)
                            ELSE IF out.ok THEN Ok(new_id)
                            ELSE Err(out.err, 0),
                 ![o].pc = "done"]
  /\ UNCHANGED <<engine_vars, scenario_vars, reader_vars, geofence_vars,
                 crdt_vars, queue_vars, wire_vars>>

DeviceInit ==
  /\ settings \in {<<>>, <<[key |-> "theme", value |-> 0]>>}
  /\ opener = [o \in Openers |-> NoCall]
  /\ minted = 0

DeviceNext ==
  \/ \E o \in Openers : NewBegin(o)
  \/ \E o \in Openers : SelectDeviceId(o)
  \/ \E o \in Openers : InsertDeviceId(o)

InitDevice ==
  /\ EngineIdle /\ ScenarioIdle /\ CrdtIdle /\ QueueIdle /\ WireIdle
  /\ ReaderIdle /\ GeofenceIdle
  /\ DeviceInit

SpecDevice == InitDevice /\ [][DeviceNext]_vars

(***************************************************************************)
(* Properties of the two-device scenario.                                  *)
(***************************************************************************)
AllPulled == \A d \in Devices : dev_stage[d] = "pulled"

\* every device pulled after every device had pushed
FullExchange == \A d \in Devices : dev_seen[d] = Devices

\* the list objects a stored history holds under the list's key
ListObjects(stored) ==
  {o \in UNION {b.ops : b \in stored} : o.obj = ROOT /\ o.key = ListKey}

\* with the list made once, in a document both devices started from, the
\* exchange ends with both deltas in it
ScenarioSharedListSums30 ==
  (AllPulled /\ FullExchange) =>
    \A d \in Devices :
      Cardinality(ListObjects(dev_doc[d])) = 1 => StoredSum(dev_doc[d]) = 30

\* with the list made by each device in a document of its own, the merged
\* document holds two lists under the key and reads only one of them
ScenarioFreshListsKeepOne ==
  (AllPulled /\ FullExchange) =>
    \A d \in Devices :
      Cardinality(ListObjects(dev_doc[d])) = 2 =>
        /\ StoredSum(dev_doc[d]) \in {50, 0 - 20}
        /\ \A e \in Devices : StoredSum(dev_doc[e]) = StoredSum(dev_doc[d])

\* C1: after device A pushed +50 and device B pushed -20 onto the same
\* list while disconnected and both pushed and pulled against the server,
\* both documents sum to 30 -- also when each device created the list in
\* a fresh document of its own.
C1_BothConvergeTo30 ==
  (AllPulled /\ FullExchange) =>
    \A d \in Devices : StoredSum(dev_doc[d]) = 30

(***************************************************************************)
(* Properties of the engine.                                               *)
(***************************************************************************)
Range(f) == {f[k] : k \in DOMAIN f}

SyncInProgress == "Sync error: Sync already in progress"

NoEndpointConfigured == "Sync error: No server URL configured"

DocumentErrors ==
  {"Sync error: Failed to load CRDT", "Sync error: Failed to load other CRDT"}

\* the call entered Syncing and has its return value; the guard is still held
Returned(t) == pc[t] = "ret" /\ loc[t].entered

\* sent by some pass, acknowledged by none, and in no running pass's batch
Stranded(ob, l, id) ==
  /\ \E k \in DOMAIN ob :
       /\ ob[k].id = id
       /\ ob[k].sent_at # NULL
       /\ ob[k].acknowledged_at = NULL
  /\ \A t \in Tasks : id \notin Range(l[t].pending)

\* C2: an item that a failed pass sent and left unacknowledged is selected
\* again by every later pass: once a later pass has read the outbox, the
\* item is in its batch.
C2_ResentUntilAcknowledged ==
  \A t \in Tasks :
    pc[t] \in {"send", "fetch", "apply", "ack"} =>
      \A k \in DOMAIN outbox :
        (pre[t].outbox[k].sent_at # NULL /\ outbox[k].acknowledged_at = NULL)
          => outbox[k].id \in Range(loc[t].pending)

\* C3: at most one pass (perform_sync) is executing at any moment.
C3_OnePassAtATime ==
  Cardinality({t \in Tasks : InPass(t)}) <= 1

C3_Witness ==
  \E t1, t2 \in Tasks : t1 # t2 /\ InPass(t1) /\ pc[t2] = "wait_lock"

\* C4: a sync_now call issued while another pass is Syncing returns the
\* SyncInProgress error at once; it is neither queued nor made to wait for
\* the running pass.  As a step property: the step by which a call is
\* issued while is_syncing is set ends the call with that error.
C4_SecondCallRejected ==
  [][\A t \in Tasks :
       (pc[t] = "idle" /\ pc'[t] # "idle" /\ status.is_syncing) =>
         (pc'[t] = "ret" /\ ret'[t].err = SyncInProgress)]_vars

\* C5: every queued item is eventually acknowledged once passes succeed.
\* In the form a finite run refutes: while no call is under way, every
\* unacknowledged item is one the next pass will drain (an item for which
\* this fails can never be acknowledged: StrandedStaysStranded).
C5_EveryItemStillAcknowledgeable ==
  (\A t \in Tasks : pc[t] \in {"idle", "wait_lock"}) =>
    \A k \in DOMAIN outbox :
      outbox[k].acknowledged_at = NULL => outbox[k].sent_at = NULL

\* no step acknowledges, or puts back into a batch, a stranded item
StrandedStaysStranded ==
  [][\A k \in DOMAIN outbox :
       Stranded(outbox, loc, outbox[k].id) =>
         Stranded(outbox', loc', outbox[k].id)]_vars

\* C6: after a pass that failed, every outbox item has the sent_at and
\* acknowledged_at it had before the pass.
C6_FailedPassLeavesOutbox ==
  \A t \in Tasks :
    (Returned(t) /\ ~loc[t].result.ok) => outbox = pre[t].outbox

\* C7: when sync_now returns a precondition error, every SyncStatus field
\* and the outbox are as they were before the call.
C7_PreconditionErrorChangesNothing ==
  \A t \in Tasks :
    (pc[t] = "ret" /\ ret[t].err \in {SyncInProgress, NoEndpointConfigured})
      => /\ status = pre[t].status
         /\ outbox = pre[t].outbox
         /\ ~loc[t].entered

C7_Witness ==
  \E t \in Tasks :
    /\ pc[t] = "ret"
    /\ ret[t].err = NoEndpointConfigured
    /\ Len(outbox) > 0

\* C8 as claimed: every sync_now call that entered Syncing ends with
\* is_syncing = false and pending_changes = the number of unacknowledged
\* outbox items, whatever it returns.
C8_AlwaysRecounted ==
  \A t \in Tasks :
    Returned(t) =>
      /\ ~status.is_syncing
      /\ status.pending_changes = CountUnacknowledged(outbox)

\* C8 as amended: the call ends with is_syncing = false; pending_changes is
\* the number of unacknowledged items when sync_now returns Ok, and is left
\* as it was when the count query fails (sync_now then returns that error).
C8_RecountedUnlessQueryFails ==
  \A t \in Tasks :
    Returned(t) =>
      /\ ~status.is_syncing
      /\ ret[t].ok => status.pending_changes = CountUnacknowledged(outbox)
      /\ ~ret[t].ok =>
           status.pending_changes = pre[t].status.pending_changes

C8_Witness ==
  \E t \in Tasks :
    /\ Returned(t)
    /\ ~loc[t].result.ok
    /\ ret[t].ok
    /\ status.pending_changes > 0
    /\ status.pending_changes # pre[t].status.pending_changes

\* C9 as claimed: a failed pass is not handed to the caller as an error:
\* sync_now returns the SyncStatus, with sync_errors one more than before,
\* last_error the failure's message and last_sync_at unchanged.
C9_FailureReturnedAsStatus ==
  \A t \in Tasks :
    (Returned(t) /\ ~loc[t].result.ok) =>
      /\ ret[t].ok
      /\ ret[t].val = status
      /\ status.sync_errors = pre[t].status.sync_errors + 1
      /\ status.last_error = loc[t].result.err
      /\ status.last_sync_at = pre[t].status.last_sync_at

\* C9 as amended: a failed pass is recorded in the SyncStatus (sync_errors
\* one more than before, last_error the failure's message, last_sync_at
\* unchanged) and sync_now returns that SyncStatus -- unless the closing
\* count query fails, and then sync_now returns the query's error.
C9_FailureRecordedInStatus ==
  \A t \in Tasks :
    (Returned(t) /\ ~loc[t].result.ok) =>
      /\ status.sync_errors = pre[t].status.sync_errors + 1
      /\ status.last_error = loc[t].result.err
      /\ status.last_sync_at = pre[t].status.last_sync_at
      /\ ret[t].ok => ret[t].val = status
      /\ ~ret[t].ok => ret[t].err = "Database error"

C9_Witness ==
  \E t \in Tasks :
    /\ Returned(t)
    /\ ~loc[t].result.ok
    /\ ret[t].ok
    /\ status.sync_errors = 1
    /\ status.last_error = "Database error"
    /\ \E k \in DOMAIN outbox : outbox[k].sent_at # NULL

\* C10: when loading or merging the document of one incoming change fails,
\* only that record is skipped: by the end of the pass that met the bad
\* record, the drained items are acknowledged and every valid change of
\* the response is applied.
C10_BadRecordSkippedOnly ==
  \A t \in Tasks :
    (pc[t] = "finish" /\ loc[t].result.err \in DocumentErrors) =>
      /\ \A id \in Range(loc[t].pending) :
           \E k \in DOMAIN outbox :
             outbox[k].id = id /\ outbox[k].acknowledged_at # NULL
      /\ Len(inbox) = Len(pre[t].inbox) +
           Cardinality({k \in DOMAIN loc[t].changes :
                          loc[t].changes[k].crdt_changes.valid})

(***************************************************************************)
(* Properties of the replicated document.                                  *)
(***************************************************************************)
\* what a reader of the document can observe: the getters on every key and
\* calculate_sum on every key
Readable(doc) ==
  [k \in AllKeys |->
     [str |-> get_string(doc, k), int |-> get_int(doc, k),
      float |-> get_float(doc, k), sum |-> calculate_sum(doc, k)]]

\* each of the two has operations the other has not seen
Diverged(a, b) == a.ops \ b.ops # {} /\ b.ops \ a.ops # {}

ReplicaLists ==
  UNION {{o.id : o \in {p \in replica[r].ops :
                          p.obj = ROOT /\ p.key = ListKey
                            /\ p.value.t = "list"}} : r \in Replicas}

\* the pushed operations (by their number) a document holds
PushedIn(doc) ==
  {n \in 1..Len(pushed) :
     \E o \in doc.ops : o.key = "id" /\ o.value = V_str(ToString(n))}

RECURSIVE SumOfPushed(_)
SumOfPushed(ns) ==
  IF ns = {} THEN 0
  ELSE LET n == CHOOSE m \in ns : TRUE
       IN  pushed[n] + SumOfPushed(ns \ {n})

\* C13: for operations pushed by any actors onto replicas of one
\* accumulation list, calculate_sum is the arithmetic sum of the pushed
\* deltas the document holds, each counted exactly once, so that after the
\* replicas are merged in either order it is the sum of all pushed deltas
\* (+100, -25, -10 gives 65); for a key with no list it is 0.
C13_SumOfAllDeltas ==
  /\ \A r \in Replicas : calculate_sum(replica[r], AbsentKey) = 0
  /\ Cardinality(ReplicaLists) <= 1 =>
       \A r, s \in Replicas :
         /\ calculate_sum(replica[r], ListKey)
              = SumOfPushed(PushedIn(replica[r]))
         /\ r # s =>
              calculate_sum(merge(replica[r], save(replica[s])).val,
                            ListKey)
                = SumOfPushed(1..Len(pushed))

\* three operations pushed by two actors onto one list, merged both ways
C13_Witness ==
  /\ Len(pushed) = 3
  /\ Cardinality(ReplicaLists) = 1
  /\ Cardinality({o.id[2] : o \in {p \in replica["A"].ops : p.insert}}) = 2
  /\ replica["A"].ops = replica["B"].ops
  /\ calculate_sum(replica["A"], ListKey) = 65
  /\ calculate_sum(replica["B"], ListKey) = 65

ConcurrentWrites(key) ==
  UNION {{o.value : o \in {p \in Visible(replica[r], ROOT, key) :
                             \A s \in Replicas \ {r} :
                               p \notin replica[s].ops}} : r \in Replicas}

\* C15: when two actors have concurrently set one key to different values
\* and each merges the other's changes, both documents return the same
\* value for the key, and it is one of the two values written.
C15_ConcurrentSetConverges ==
  \A key \in ScalarKeys :
    LET a == merge(replica["A"], save(replica["B"])).val
        b == merge(replica["B"], save(replica["A"])).val
    IN  Cardinality(ConcurrentWrites(key)) = 2 =>
          /\ RootValue(a, key) = RootValue(b, key)
          /\ get_string(a, key) = get_string(b, key)
          /\ get_int(a, key) = get_int(b, key)
          /\ get_float(a, key) = get_float(b, key)
          /\ RootValue(a, key) # {}
          /\ RootValue(a, key) \subseteq ConcurrentWrites(key)

\* both replicas wrote the key, with different values, at the same
\* operation counter, so that only the actor identifier decides
C15_Witness ==
  \E key \in ScalarKeys :
    /\ Cardinality(ConcurrentWrites(key)) = 2
    /\ \E o \in Visible(replica["A"], ROOT, key) :
         \E p \in Visible(replica["B"], ROOT, key) :
           o.id[1] = p.id[1] /\ o.id[2] # p.id[2] /\ o.value # p.value

\* key was written in doc and never in other
SetOnlyIn(doc, other, key) ==
  /\ \E o \in doc.ops : o.obj = ROOT /\ o.key = key
  /\ \A o \in other.ops : ~(o.obj = ROOT /\ o.key = key)

\* C17: after B's saved bytes are merged into A, every key set only in A
\* and every key set only in B reads back from A with the value that was
\* written to it.
C17_MergeKeepsBothSides ==
  \A r, s \in Replicas : \A key \in ScalarKeys :
    LET merged == merge(replica[r], save(replica[s]))
    IN  /\ merged.ok
        /\ SetOnlyIn(replica[r], replica[s], key) =>
             /\ RootValue(merged.val, key) = RootValue(replica[r], key)
             /\ RootValue(merged.val, key) \subseteq SetValues
             /\ RootValue(merged.val, key) # {}
        /\ SetOnlyIn(replica[s], replica[r], key) =>
             /\ RootValue(merged.val, key) = RootValue(replica[s], key)
             /\ RootValue(merged.val, key) \subseteq SetValues
             /\ RootValue(merged.val, key) # {}

\* one key was set only in A, to a string, and another only in B, to an
\* integer
C17_Witness ==
  \E k1, k2 \in ScalarKeys :
    /\ k1 # k2
    /\ SetOnlyIn(replica["A"], replica["B"], k1)
    /\ SetOnlyIn(replica["B"], replica["A"], k2)
    /\ get_string(replica["A"], k1) = {"v1"}
    /\ get_int(replica["B"], k2) = {7}

(***************************************************************************)
(* Properties of the engine's tables.                                      *)
(***************************************************************************)
\* task t is about to apply the change record it applied in its previous
\* turn of the loop: a duplicated delivery
ReplayedDelivery(t) ==
  /\ pc[t] = "apply"
  /\ loc[t].i > 1
  /\ loc[t].i <= Len(loc[t].changes)
  /\ loc[t].changes[loc[t].i] = loc[t].changes[loc[t].i - 1]

\* C16: applying the same incoming change record a second time is a no-op
\* for local state: the persisted document content and the inbox contents
\* are what they were after the first application.
C16_ReplayedChangeIsNoOp ==
  [][\A t \in Tasks :
       ReplayedDelivery(t) => docs' = docs /\ inbox' = inbox]_vars

\* C19: queue_change appends exactly one outbox item, with version 1 and
\* with sent_at and acknowledged_at unset, and changes no item that was
\* there; it is the only operation that adds outbox items: no step of a
\* sync pass, and nothing else, makes the outbox longer.
C19_QueueChangeOnlyProducer ==
  [][/\ Len(outbox') >= Len(outbox)
     /\ Len(outbox') > Len(outbox) =>
          \E r \in Records, op \in {"UPDATE"} : QueueChange(r, op)
     /\ (\E r \in Records, op \in {"UPDATE"} : QueueChange(r, op)) =>
          /\ Len(outbox') = Len(outbox) + 1
          /\ SubSeq(outbox', 1, Len(outbox)) = outbox
          /\ outbox'[Len(outbox')].version = 1
          /\ outbox'[Len(outbox')].sent_at = NULL
          /\ outbox'[Len(outbox')].acknowledged_at = NULL
          /\ \A k \in 1..Len(outbox) :
               outbox'[Len(outbox')].id # outbox[k].id]_vars

\* an item was queued behind one that a pass has already sent and
\* acknowledged
C19_Witness ==
  /\ Len(outbox) = 2
  /\ outbox[1].sent_at # NULL
  /\ outbox[1].acknowledged_at # NULL
  /\ outbox[2].version = 1
  /\ outbox[2].sent_at = NULL
  /\ outbox[2].acknowledged_at = NULL
  /\ \A t \in Tasks : pc[t] = "idle"

(***************************************************************************)
(* Properties of the wire format.                                          *)
(***************************************************************************)
\* C18: encoding a SyncMessage to JSON and decoding it again yields the
\* same message for change records of both kinds: change bytes come back
\* as the identical byte sequence, and a JSON-payload record, whose
\* change-bytes field is absent on the wire, decodes with it absent.
C18_WireRoundTrip ==
  \A result \in decoded : result.ok /\ result.val = message

AcknowledgedInPass(t) ==
  {k \in DOMAIN pre[t].outbox :
     outbox[k].acknowledged_at # pre[t].outbox[k].acknowledged_at}

\* C21: acknowledged_at is set only by a pass in which every send, the
\* pull and every apply succeeded and which is reported as successful: a
\* pass that has ended in failure, or a call that returns an error, has
\* set acknowledged_at on no item.
C21_FailedPassAcknowledgesNothing ==
  \A t \in Tasks :
    \/ pc[t] = "finish" /\ ~loc[t].result.ok
    \/ pc[t] = "ret" /\ loc[t].entered /\ ~ret[t].ok
    => AcknowledgedInPass(t) = {}

\* the items the pass of task t has stamped sent_at on so far, and the
\* items that were unsent when it began
SentInPass(t) ==
  {k \in DOMAIN pre[t].outbox :
     outbox[k].sent_at # pre[t].outbox[k].sent_at}

UnsentAtStart(t) ==
  {k \in DOMAIN pre[t].outbox : pre[t].outbox[k].sent_at = NULL}

\* C22: within a pass the drained items are sent in created_at order (the
\* order of the outbox): at every moment the items sent so far are the
\* oldest of the unsent ones, so an older item is sent before a newer one;
\* and once a send has failed, no later item of the batch is sent or
\* stamped sent_at in that pass.
C22_SentInCreatedOrder ==
  \A t \in Tasks :
    loc[t].entered =>
      /\ SentInPass(t) \subseteq UnsentAtStart(t)
      /\ \A a, b \in UnsentAtStart(t) :
           a < b /\ b \in SentInPass(t) => a \in SentInPass(t)

\* a pass sent the older of two items, failed on the newer and ended
C22_Witness ==
  \E t \in Tasks :
    /\ pc[t] = "finish"
    /\ ~loc[t].result.ok
    /\ UnsentAtStart(t) = {1, 2}
    /\ SentInPass(t) = {1}

\* C23: for each incoming change, persisting the merged document and
\* enqueuing it in the inbox take effect together: in no reachable state,
\* a storage error between the two writes included, is a merged document
\* persisted for a record without the inbox entry that carries it.
C23_DocumentAndInboxTogether ==
  \A r \in Records :
    \A bytes \in docs[r] :
      \E k \in DOMAIN inbox :
        /\ inbox[k].record_id = r
        /\ inbox[k].payload = to_json(from_changes(bytes, 1).val)

\* C24: every change record built by ChangeRecord::json or
\* ChangeRecord::crdt carries exactly one payload kind, and operation Merge
\* occurs exactly on the records that carry change bytes: a record built
\* with a JSON payload never has operation Merge.
C24_MergeOnlyOnCrdtRecords ==
  \A m \in message :
    \A k \in DOMAIN m.payload.changes :
      LET r == m.payload.changes[k]
      IN  /\ (r.json_payload = {}) # (r.crdt_changes = {})
          /\ (r.operation = "Merge") = (r.crdt_changes # {})

\* C25: in every reachable state of the outbox an item whose
\* acknowledged_at is set has sent_at set as well: no item is acknowledged
\* without having been sent.
C25_AcknowledgedImpliesSent ==
  \A k \in DOMAIN outbox :
    outbox[k].acknowledged_at # NULL => outbox[k].sent_at # NULL

\* one item is sent and acknowledged while another is sent only
C25_Witness ==
  \E j, k \in DOMAIN outbox :
    /\ outbox[j].sent_at # NULL
    /\ outbox[j].acknowledged_at # NULL
    /\ outbox[k].sent_at # NULL
    /\ outbox[k].acknowledged_at = NULL

\* C26: whenever no sync_now call is executing on the engine, is_syncing
\* is false, also after a call was abandoned while suspended inside the
\* pass, so that a later sync_now is not rejected as already in progress
\* when no pass is running.
C26_IdleEngineNotSyncing ==
  lock = NoTask => ~status.is_syncing

\* C27: through the sync_now command no pass starts while offline mode is
\* enabled, under any interleaving with set_offline_mode: a step in which
\* the engine begins a pass is taken with offline mode off.
C27_NoPassStartsOffline ==
  [][\A t \in Tasks :
       ~loc[t].entered /\ loc'[t].entered => ~offline_mode]_vars

\* C28: a status read through the get_sync_status command never returns
\* is_syncing = true; what it returns is the status as the last completed
\* sync_now (or the construction of the engine) left it.
C28_StatusReadNeverSyncing ==
  [][seen' # seen =>
       /\ \A st \in seen' : ~st.is_syncing
       /\ seen' = {status}
       /\ \A t \in Tasks : ~InPass(t) /\ pc[t] # "set"]_vars

\* a status was read after a pass had completed and changed the status
C28_Witness ==
  \E st \in seen : st.last_sync_at > 0 \/ st.sync_errors > 0

(***************************************************************************)
(* Geofences: GeofenceChecker::check_with_tracking.  Positions are points *)
(* of a line, so the haversine distance of two positions is the absolute  *)
(* difference, and a polygon is the stretch of the line its vertices      *)
(* enclose.                                                               *)
(***************************************************************************)
Coords == 0..MaxCoord

Circles ==
  [type : {"circle"}, center : Coords, radius_meters : 0..MaxRadius]

\* too few vertices, and a closed ring around the inner positions
Polygons ==
  [type : {"polygon"}, vertices : {<<>>, <<0, MaxCoord>>, <<0, MaxCoord, 0>>}]

GeofenceGeometry == Circles \cup Polygons

haversine_distance(p1, p2) == IF p1 < p2 THEN p2 - p1 ELSE p1 - p2

\* geo's Polygon::contains: the interior, without the boundary
check_polygon(point, vertices) ==
  IF Len(vertices) < 3
  THEN FALSE
  ELSE /\ \E k \in DOMAIN vertices : vertices[k] < point
       /\ \E k \in DOMAIN vertices : vertices[k] > point

is_inside_of(point, geometry) ==
  IF geometry.type = "circle"
  THEN haversine_distance(point, geometry.center) <= geometry.radius_meters
  ELSE check_polygon(point, geometry.vertices)

distance_to_boundary(point, geometry) ==
  IF geometry.type = "circle"
  THEN haversine_distance(haversine_distance(point, geometry.center),
                          geometry.radius_meters)
  ELSE 0

\* previous_states.get(geofence_id).copied().unwrap_or(false)
previous_of(states, geofence_id) ==
  IF states[geofence_id] = {} THEN FALSE ELSE TRUE \in states[geofence_id]

\* a faulty match: Enter reported at every check inside the geofence
trigger_on_presence(previous, is_inside) ==
  IF is_inside THEN "Enter" ELSE IF previous THEN "Exit" ELSE None

\* match (previous, is_inside)
trigger_of(previous, is_inside) ==
  IF ~previous /\ is_inside THEN "Enter"
  ELSE IF previous /\ ~is_inside THEN "Exit"
  ELSE None

CheckWithTracking(geofence_id, point, geometry) ==
  /\ checks < MaxChecks
  /\ LET is_inside == is_inside_of(point, geometry)
         previous == previous_of(previous_states, geofence_id)
     IN /\ previous_states' =
             [previous_states EXCEPT ![geofence_id] = {is_inside}]
        /\ fence_result' =
             {[is_inside |-> is_inside,
               distance_to_boundary_meters |->
                 distance_to_boundary(point, geometry),
               geofence_id |-> geofence_id,
               trigger_type |-> trigger_of(previous, is_inside)]}
  /\ checks' = checks + 1
  /\ UNCHANGED <<engine_vars, scenario_vars, crdt_vars, queue_vars,
                 wire_vars, device_vars, reader_vars>>

GeofenceNext ==
  \E g \in GeofenceIds : \E point \in Coords : \E geometry \in GeofenceGeometry :
    CheckWithTracking(g, point, geometry)

InitGeofence ==
  /\ EngineIdle /\ ScenarioIdle /\ CrdtIdle /\ QueueIdle /\ WireIdle
  /\ DeviceIdle /\ ReaderIdle /\ GeofenceIdle

SpecGeofence == InitGeofence /\ [][GeofenceNext]_vars

\* C30: for any sequence of check_with_tracking calls, a call for geofence
\* id g reports Enter exactly when g was recorded outside (or never
\* checked) and the point is now inside, Exit exactly when g was recorded
\* inside and the point is now outside, and no trigger otherwise; the
\* call records the new state of g and leaves the recorded state of every
\* other geofence id unchanged.
C30_TriggersFollowRecordedState ==
  [][checks' # checks =>
       LET r == CHOOSE x \in fence_result' : TRUE
           g == r.geofence_id
           was_inside == previous_states[g] = {TRUE}
       IN /\ (r.trigger_type = "Enter") = (~was_inside /\ r.is_inside)
          /\ (r.trigger_type = "Exit") = (was_inside /\ ~r.is_inside)
          /\ r.trigger_type \in {"Enter", "Exit", None}
          /\ previous_states'[g] = {r.is_inside}
          /\ \A h \in GeofenceIds \ {g} :
               previous_states'[h] = previous_states[h]]_vars

\* a geofence was left while another one is recorded as entered
C30_Witness ==
  \E r \in fence_result : \E h \in GeofenceIds \ {r.geofence_id} :
    /\ r.trigger_type = "Exit"
    /\ previous_states[h] = {TRUE}
    /\ previous_states[r.geofence_id] = {FALSE}

\* C29: create_list on a key that already holds a list returns that list
\* and leaves the operations in it in place: calculate_sum for the key is
\* the same before and after the call.
C29_CreateListKeepsSum ==
  [][\A r \in Replicas :
       (/\ DoCreateList(r)
        /\ get(replica[r], ROOT, ListKey) # {}) =>
         calculate_sum(replica'[r], ListKey)
           = calculate_sum(replica[r], ListKey)]_vars

=============================================================================
